---- MODULE Spec2Model ----
(***************************************************************************)
(* Model of the terminology-validated FHIR gateway:                        *)
(*   src/src/client.py            FHIRClient (transport to a server)       *)
(*   src/src/terminology.py       TerminologyService (vocabulary client)   *)
(*   src/src/integrated_client.py IntegratedFHIRClient (resource gateway)  *)
(*                                                                         *)
(* Python values are modelled as tagged JSON-like values, dictionaries as  *)
(* ordered key/value sequences (Python dicts keep insertion order), and    *)
(* the outcome of a call as a record [exc, val]: exc = "none" for a normal *)
(* return, the exception class name otherwise.                             *)
(***************************************************************************)
EXTENDS Integers, Sequences, FiniteSets, TLC

VARIABLES
    validate_codes,   \* IntegratedFHIRClient.validate_codes
    enrich_display,   \* IntegratedFHIRClient.enrich_display
    phase,            \* "idle": no call made yet; "done": a call has finished
    op,               \* the gateway / vocabulary operation that was called
    args,             \* its arguments
    vocab,            \* the vocabulary server's answers to this call's requests
    data,             \* the data server's behaviour during this call
    outcome,          \* [exc, val]: how the call ended
    posts,            \* POST requests sent to the data server by the call
    validated,        \* is_valid_code calls made, in order: [system, code, result]
    lookups,          \* get_display_name calls made, in order: [system, code]
    subsumptions,     \* check_subsumption calls made, in order
    runs,             \* number of times _enrich_codings was applied to outcome.val
    sent,             \* HTTP attempts made on the data server by the call
    translations,     \* translate_code calls made, in order: [system, code, target]
    client            \* the attributes of the object terminology.client holds

vars == <<validate_codes, enrich_display, phase, op, args, vocab, data,
          outcome, posts, validated, lookups, subsumptions, runs, sent, translations,
          client>>

----------------------------------------------------------------------------
(* Bounds of the model *)

MaxCodings == 2      \* longest 'coding' array in a record read from the server
MaxCandidates == 2   \* most Condition entries in a search bundle
MaxVisits == 4       \* most codings the loop of translate_condition_codes is followed over

----------------------------------------------------------------------------
(* JSON-like values *)

Null == [t |-> "null"]
Str(s) == [t |-> "str", s |-> s]
Bool(b) == [t |-> "bool", b |-> b]
Num(n) == [t |-> "num", n |-> n]
List(items) == [t |-> "list", items |-> items]
Dict(kv) == [t |-> "dict", kv |-> kv]
KV(k, v) == [k |-> k, v |-> v]

IsDict(x) == x.t = "dict"
IsList(x) == x.t = "list"
IsStr(x) == x.t = "str"

\* Python truthiness: None, False, 0, "", [] and {} are falsy
Truthy(x) ==
    CASE x.t = "null" -> FALSE
      [] x.t = "bool" -> x.b
      [] x.t = "num" -> x.n # 0
      [] x.t = "str" -> x.s # ""
      [] x.t = "list" -> x.items # <<>>
      [] x.t = "dict" -> x.kv # <<>>

\* key in d
Has(d, k) == \E i \in 1..Len(d.kv) : d.kv[i].k = k

KeyIndex(d, k) == CHOOSE i \in 1..Len(d.kv) : d.kv[i].k = k

\* d.get(k, default)
Get(d, k, default) == IF Has(d, k) THEN d.kv[KeyIndex(d, k)].v ELSE default

\* d[k] = v : an existing key keeps its position, a new key goes last
Put(d, k, v) ==
    IF Has(d, k)
    THEN Dict([d.kv EXCEPT ![KeyIndex(d, k)] = KV(k, v)])
    ELSE Dict(Append(d.kv, KV(k, v)))

\* x or y
Or(x, y) == IF Truthy(x) THEN x ELSE y

Ret(v) == [exc |-> "none", val |-> v]
Raise(e) == [exc |-> e, val |-> Null]
Raised(o) == o.exc # "none"

\* v = ...; F(v): a local variable of the code
With(v, F(_)) == F(v)

\* r = call(); the rest runs unless the call raised
Try(r, F(_)) == IF Raised(r) THEN r ELSE F(r.val)

----------------------------------------------------------------------------
(* FHIRClient: the transport (src/src/client.py) *)

RetryTotal == 3
StatusForcelist == {429, 500, 502, 503, 504}

\* The attributes an instance of FHIRClient has: the fields set by __init__
\* and the methods of the class.
FHIRClientAttrs ==
    {"base_url", "timeout", "verify_ssl", "session",
     "create_resource", "read_resource", "update_resource", "delete_resource",
     "search", "get_capability_statement", "close"}

\* self.client._make_request(method, endpoint, params=params): the attribute
\* lookup on the FHIRClient instance fails, whatever the server would answer.
MakeRequest(method, endpoint, answer) ==
    IF "_make_request" \in client THEN answer ELSE Raise("AttributeError")

\* the status of an attempt that got no response within timeout=self.timeout
Timeout == 0

\* a slip: the retry loop taken for `total` attempts, the first one included
RECURSIVE Attempt_TotalAttempts(_, _)
Attempt_TotalAttempts(statuses, i) ==
    IF (statuses[i] \in StatusForcelist \/ statuses[i] = Timeout) /\ i < RetryTotal
    THEN Attempt_TotalAttempts(statuses, i + 1)
    ELSE [attempts |-> i, status |-> statuses[i]]

\* a slip: the session without the adapter mounted, nothing is retried
Attempt_NoRetry(statuses, i) == [attempts |-> i, status |-> statuses[i]]

\* One request through the session's HTTPAdapter with Retry(total=3,
\* status_forcelist=...): statuses[i] is the server's status for attempt i.
\* A status of the forcelist, or a timeout, is retried while retries remain:
\* total counts the retries, so the first attempt comes on top of them.
RECURSIVE Attempt(_, _)
Attempt(statuses, i) ==
    IF (statuses[i] \in StatusForcelist \/ statuses[i] = Timeout) /\ i <= RetryTotal
    THEN Attempt(statuses, i + 1)
    ELSE [attempts |-> i, status |-> statuses[i]]

\* a slip: `except RequestException: return None`, the failure is logged and
\* swallowed
Request_Swallows(statuses, body) ==
    With(Attempt(statuses, 1), LAMBDA a :
        [attempts |-> a.attempts,
         out |-> IF a.status >= 200 /\ a.status < 300 THEN Ret(body) ELSE Ret(Null)])

\* session.<method>(...) followed by response.raise_for_status() inside
\* try/except RequestException: the body on a 2xx status, FHIRClientError
\* otherwise (retries exhausted, or an error status that is not retried).
Request(statuses, body) ==
    With(Attempt(statuses, 1), LAMBDA a :
        [attempts |-> a.attempts,
         out |-> IF a.status >= 200 /\ a.status < 300
                 THEN Ret(body) ELSE Raise("FHIRClientError")])

\* FHIRClient.create_resource
CreateResource(resource, statuses) ==
    IF ~Has(resource, "resourceType")
    THEN [attempts |-> 0, out |-> Raise("FHIRClientError")]
    ELSE Request(statuses, Put(resource, "id", Str("new")))

\* FHIRClient.read_resource
ReadResource(stored, statuses) == Request(statuses, stored)

\* FHIRClient.search
Search(bundle, statuses) == Request(statuses, bundle)

\* a slip: update_resource without the `"id" not in resource` check
UpdateResource_NoIdCheck(resource, statuses) ==
    IF ~Has(resource, "resourceType")
    THEN [attempts |-> 0, out |-> Raise("FHIRClientError")]
    ELSE Request(statuses, resource)

\* FHIRClient.update_resource: the server answers with the resource it stored
UpdateResource(resource, statuses) ==
    IF ~Has(resource, "resourceType") \/ ~Has(resource, "id")
    THEN [attempts |-> 0, out |-> Raise("FHIRClientError")]
    ELSE Request(statuses, resource)

\* FHIRClient.delete_resource: return response.status_code in [200, 204]
DeleteResource(statuses) ==
    With(Attempt(statuses, 1), LAMBDA a :
        With(Request(statuses, Null), LAMBDA r :
            [attempts |-> r.attempts,
             out |-> IF Raised(r.out) THEN r.out ELSE Ret(Bool(a.status \in {200, 204}))]))

----------------------------------------------------------------------------
(* TerminologyService: the vocabulary client (src/src/terminology.py) *)

LOINC == "http://loinc.org"
SNOMED == "http://snomed.info/sct"
ICD10CM == "http://hl7.org/fhir/sid/icd-10-cm"
CLINICAL == "http://terminology.hl7.org/CodeSystem/condition-clinical"
UCUM == "http://unitsofmeasure.org"
UNKNOWN == "http://unknown.example/sys"

\* TerminologyService.CODE_SYSTEMS
CODE_SYSTEMS ==
    [a \in {"snomed", "loinc", "icd10", "icd10cm", "rxnorm", "cpt", "ucum", "ndc"} |->
        CASE a = "snomed" -> SNOMED
          [] a = "loinc" -> LOINC
          [] a = "icd10" -> "http://hl7.org/fhir/sid/icd-10"
          [] a = "icd10cm" -> ICD10CM
          [] a = "rxnorm" -> "http://www.nlm.nih.gov/research/umls/rxnorm"
          [] a = "cpt" -> "http://www.ama-assn.org/go/cpt"
          [] a = "ucum" -> UCUM
          [] a = "ndc" -> "http://hl7.org/fhir/sid/ndc"]

\* str.lower() on the strings the model uses
Lower(s) ==
    CASE s = "LOINC" -> "loinc"
      [] s = "SNOMED" -> "snomed"
      [] s = "Loinc" -> "loinc"
      [] OTHER -> s

\* a slip: `self.CODE_SYSTEMS[code_system.lower()]`, an unknown name is a
\* KeyError
GetCodeSystemUrl_StrictLookup(code_system) ==
    IF ~IsStr(code_system) THEN Raise("AttributeError")
    ELSE IF Lower(code_system.s) \in DOMAIN CODE_SYSTEMS
    THEN Ret(Str(CODE_SYSTEMS[Lower(code_system.s)]))
    ELSE Raise("KeyError")

\* TerminologyService.get_code_system_url; code_system.lower() raises
\* AttributeError on a value that is not a string
GetCodeSystemUrl(code_system) ==
    IF ~IsStr(code_system) THEN Raise("AttributeError")
    ELSE With(Lower(code_system.s), LAMBDA l :
            IF l \in DOMAIN CODE_SYSTEMS THEN Ret(Str(CODE_SYSTEMS[l]))
            ELSE Ret(code_system))

\* The answer of the vocabulary server to a request: "unreachable" stands for
\* a transport failure, anything else is the decoded response body.
Unreachable == Str("unreachable")

\* What a vocabulary table answers for the request (a, b); a request the
\* table does not know is a transport failure
Answer(table, a, b) ==
    IF <<a, b>> \in DOMAIN table THEN table[<<a, b>>] ELSE Unreachable

\* the request as the transport would perform it: FHIRClientError on a
\* transport failure, the decoded body otherwise
Served(answer) == IF answer = Unreachable THEN Raise("FHIRClientError") ELSE Ret(answer)

\* TerminologyService.validate_code(code, system): an exception other than
\* FHIRClientError passes the except clause, FHIRClientError is re-raised.
ValidateCode(code, system, table) ==
    Try(GetCodeSystemUrl(system), LAMBDA system_url :
        MakeRequest("GET", "CodeSystem/$validate-code",
                    Served(Answer(table, system_url, code))))

\* first parameter of a Parameters body with the given name, or Null
FirstParam(params, name) ==
    With({i \in 1..Len(params) : Get(params[i], "name", Null) = Str(name)}, LAMBDA named :
        IF named = {} THEN Null
        ELSE params[CHOOSE i \in named : \A j \in named : i <= j])

\* for param in result.get("parameter", []): if param.get("name") == name
ParamNamed(result, name) ==
    FirstParam(Get(result, "parameter", List(<<>>)).items, name)

\* is_valid_code without its try/except
IsValidCodeUnguarded(code, system, table) ==
    Try(ValidateCode(code, system, table), LAMBDA result :
        With(ParamNamed(result, "result"), LAMBDA param :
            IF param = Null THEN Ret(Bool(FALSE))
            ELSE Ret(Get(param, "valueBoolean", Bool(FALSE)))))

\* try: ... except Exception: return fallback
Except(r, fallback) == IF Raised(r) THEN Ret(fallback) ELSE r

\* a slip: is_valid_code without its except clause
IsValidCode_Propagates(code, system, table) ==
    IsValidCodeUnguarded(code, system, table)

\* TerminologyService.is_valid_code
IsValidCode(code, system, table) ==
    Except(IsValidCodeUnguarded(code, system, table), Bool(FALSE))

\* TerminologyService.lookup_code(system, code)
LookupCode(system, code, table) ==
    Try(GetCodeSystemUrl(system), LAMBDA system_url :
        MakeRequest("GET", "CodeSystem/$lookup",
                    Served(Answer(table, system_url, code))))

\* get_display_name without its try/except
GetDisplayNameUnguarded(system, code, table) ==
    Try(LookupCode(system, code, table), LAMBDA result :
        With(ParamNamed(result, "display"), LAMBDA param :
            IF param = Null THEN Ret(Null)
            ELSE Ret(Get(param, "valueString", Null))))

\* a slip: get_display_name without its except clause
GetDisplayName_Propagates(system, code, table) ==
    GetDisplayNameUnguarded(system, code, table)

\* TerminologyService.get_display_name: None on any exception
GetDisplayName(system, code, table) ==
    Except(GetDisplayNameUnguarded(system, code, table), Null)

\* TerminologyService.expand_value_set(value_set_url, filter_text): the table
\* is keyed by (url, filter), the filter None when there is none
ExpandValueSet(value_set_url, filter_text, table) ==
    MakeRequest("GET", "ValueSet/$expand",
                Served(Answer(table, value_set_url, filter_text)))

\* result.get("expansion", {}).get("contains", [])
Contains(result) == Get(Get(result, "expansion", Dict(<<>>)), "contains", List(<<>>))

\* TerminologyService.search_value_set: [] on any exception
SearchValueSet(value_set_url, search_text, table) ==
    Except(Try(ExpandValueSet(value_set_url, search_text, table),
               LAMBDA result : Ret(Contains(result))),
           List(<<>>))

\* TerminologyService.check_subsumption(code_a, code_b, system): the table is
\* keyed by (code_a, code_b)
CheckSubsumption(code_a, code_b, system, table) ==
    Try(GetCodeSystemUrl(system), LAMBDA system_url :
        MakeRequest("GET", "CodeSystem/$subsumes",
                    Served(Answer(table, code_a, code_b))))

----------------------------------------------------------------------------
(* IntegratedFHIRClient._enrich_codings (src/src/integrated_client.py)     *)
(* The walk returns [exc, val, log]: the enriched value, the                *)
(* get_display_name calls it made in order, and the exception that ended    *)
(* it, if any.                                                              *)

Walked(v, log) == [exc |-> "none", val |-> v, log |-> log]
Aborted(e, log) == [exc |-> e, val |-> Null, log |-> log]

LookupCall(coding) == [system |-> Get(coding, "system", Null), code |-> Get(coding, "code", Null)]

\* a slip: the loop body without `and not coding.get("display")`, a display
\* that was given is replaced by the one the vocabulary server returns
EnrichCoding_Overwrites(coding, table) ==
    IF Has(coding, "system") /\ Has(coding, "code")
    THEN With(GetDisplayName(Get(coding, "system", Null), Get(coding, "code", Null), table),
              LAMBDA display :
                 IF Raised(display) THEN Aborted(display.exc, <<LookupCall(coding)>>)
                 ELSE IF Truthy(display.val)
                      THEN Walked(Put(coding, "display", display.val), <<LookupCall(coding)>>)
                      ELSE Walked(coding, <<LookupCall(coding)>>))
    ELSE Walked(coding, <<>>)

\* the body of the loop of enrich_coding_list for one coding
EnrichCoding(coding, table) ==
    IF Has(coding, "system") /\ Has(coding, "code")
       /\ ~Truthy(Get(coding, "display", Null))
    THEN With(GetDisplayName(Get(coding, "system", Null), Get(coding, "code", Null), table),
              LAMBDA display :
                 IF Raised(display) THEN Aborted(display.exc, <<LookupCall(coding)>>)
                 ELSE IF Truthy(display.val)
                      THEN Walked(Put(coding, "display", display.val), <<LookupCall(coding)>>)
                      ELSE Walked(coding, <<LookupCall(coding)>>))
    ELSE Walked(coding, <<>>)

\* the sequences of qs, one after the other
RECURSIVE Concat(_)
Concat(qs) == IF qs = <<>> THEN <<>> ELSE Head(qs) \o Concat(Tail(qs))

\* the logs of the walks rs[1..n], one after the other
RECURSIVE LogsUpTo(_, _)
LogsUpTo(rs, n) == IF n = 0 THEN <<>> ELSE LogsUpTo(rs, n - 1) \o rs[n].log

\* index of the first walk of rs that raised, 0 when none did
FirstRaised(rs) ==
    IF \E i \in 1..Len(rs) : Raised(rs[i])
    THEN CHOOSE i \in 1..Len(rs) : Raised(rs[i]) /\ \A j \in 1..(i - 1) : ~Raised(rs[j])
    ELSE 0

\* the walks of the items of a sequence, in order: the first one that raises
\* ends the walk, otherwise the walked items come back as a sequence
InOrder(rs) ==
    With(FirstRaised(rs), LAMBDA k :
        IF k # 0 THEN Aborted(rs[k].exc, LogsUpTo(rs, k))
        ELSE Walked([i \in 1..Len(rs) |-> rs[i].val], LogsUpTo(rs, Len(rs))))

\* the walked items as a Python list
AsList(w) == IF Raised(w) THEN w ELSE [w EXCEPT !.val = List(w.val)]

\* the walked values put back under the keys of the dict they came from
AsDict(o, w) ==
    IF Raised(w) THEN w
    ELSE [w EXCEPT !.val = Dict([i \in 1..Len(o.kv) |-> KV(o.kv[i].k, w.val[i])])]

\* a slip: the enriched codings are added to the list they came from
EnrichCodingList_Appends(codings, table) ==
    With(InOrder([i \in 1..Len(codings) |-> EnrichCoding(codings[i], table)]), LAMBDA w :
        IF Raised(w) THEN w ELSE [w EXCEPT !.val = List(codings \o w.val)])

\* a slip: `for coding in reversed(codings)`, the list is rebuilt back to front
EnrichCodingList_Reversed(codings, table) ==
    AsList(InOrder([i \in 1..Len(codings) |->
                       EnrichCoding(codings[Len(codings) + 1 - i], table)]))

\* enrich_coding_list: the codings in array order
EnrichCodingList(codings, table) ==
    AsList(InOrder([i \in 1..Len(codings) |-> EnrichCoding(codings[i], table)]))

\* if not obj.get("text") and obj["coding"]:
\*     obj["text"] = obj["coding"][0].get("display", "")
SetText(obj) ==
    IF ~Truthy(Get(obj, "text", Null)) /\ Truthy(Get(obj, "coding", Null))
    THEN Put(obj, "text", Get(Get(obj, "coding", Null).items[1], "display", Str("")))
    ELSE obj

\* the log of a walk that followed the calls of `before`
After(before, r) == [r EXCEPT !.log = before \o r.log]

\* recursive_enrich(obj); the children of a node are disjoint subtrees
RECURSIVE RecursiveEnrich(_, _)
RecursiveEnrich(obj, table) ==
    LET \* for key, value in obj.items(): obj[key] = recursive_enrich(value)
        EnrichValues(o) ==
            AsDict(o, InOrder([i \in 1..Len(o.kv) |-> RecursiveEnrich(o.kv[i].v, table)]))
    IN  IF IsDict(obj)
        THEN IF Has(obj, "coding") /\ IsList(Get(obj, "coding", Null))
             THEN With(EnrichCodingList(Get(obj, "coding", Null).items, table), LAMBDA c :
                      IF Raised(c) THEN c
                      ELSE After(c.log, EnrichValues(SetText(Put(obj, "coding", c.val)))))
             ELSE EnrichValues(obj)
        ELSE IF IsList(obj)
        THEN \* return [recursive_enrich(item) for item in obj]
             AsList(InOrder([i \in 1..Len(obj.items) |->
                                RecursiveEnrich(obj.items[i], table)]))
        ELSE Walked(obj, <<>>)

\* IntegratedFHIRClient._enrich_codings
EnrichCodings(resource, table) == RecursiveEnrich(resource, table)

----------------------------------------------------------------------------
(* IntegratedFHIRClient: the resource gateway (src/src/integrated_client.py) *)
(* A gateway call is an operator that returns its trace: how it ended and   *)
(* the requests and vocabulary calls it made.                               *)

Trace(out, p, v, l, s) ==
    [out |-> out, posts |-> p, validated |-> v, lookups |-> l, subsumptions |-> s,
     sent |-> p, translations |-> <<>>, ended |-> TRUE]

\* the trace of a call whose data-server request took n attempts
Sending(n, tr) == [tr EXCEPT !.sent = n]

\* a slip: `if validate:` in place of the line below, the instance default is lost
ShouldValidate_IgnoresDefault(validate, default) ==
    validate # Null /\ Truthy(validate)

\* a slip: `should_validate = self.validate_codes`, the argument is not read
ShouldValidate_IgnoresOverride(validate, default) == default

\* should_validate = validate if validate is not None else self.validate_codes
ShouldValidate(validate, default) ==
    IF validate # Null THEN Truthy(validate) ELSE default

\* should_enrich = enrich if enrich is not None else self.enrich_display
ShouldEnrich(enrich, default) ==
    IF enrich # Null THEN Truthy(enrich) ELSE default

\* f"Patient/{patient_id}"
PatientReference(patient_id) ==
    CASE patient_id = "123" -> "Patient/123"
      [] patient_id = "456" -> "Patient/456"

\* the Observation built by create_observation
ObservationResource(patient_id, code, system_url, display, value, unit, status) ==
    Dict(<<
        KV("resourceType", Str("Observation")),
        KV("status", status),
        KV("code", Dict(<<
            KV("coding", List(<<Dict(<<
                KV("system", system_url),
                KV("code", code),
                KV("display", Or(display, code))>>)>>)),
            KV("text", Or(display, code))>>)),
        KV("subject", Dict(<<KV("reference", Str(PatientReference(patient_id)))>>)),
        KV("valueQuantity", Dict(<<
            KV("value", value),
            KV("unit", unit),
            KV("system", Str(UCUM)),
            KV("code", unit)>>))>>)

\* the Condition built by create_condition
ConditionResource(patient_id, code, system_url, display, clinical_status) ==
    Dict(<<
        KV("resourceType", Str("Condition")),
        KV("clinicalStatus", Dict(<<
            KV("coding", List(<<Dict(<<
                KV("system", Str(CLINICAL)),
                KV("code", clinical_status)>>)>>))>>)),
        KV("code", Dict(<<
            KV("coding", List(<<Dict(<<
                KV("system", system_url),
                KV("code", code),
                KV("display", display)>>)>>)),
            KV("text", Or(display, code))>>)),
        KV("subject", Dict(<<KV("reference", Str(PatientReference(patient_id)))>>))>>)

ValidatedCall(code, system, result) == [system |-> system, code |-> code, result |-> result]

\* the resource literal of the create method, from its arguments
ResourceOf(given, display, system_url) ==
    IF given.resourceType = "Observation"
    THEN ObservationResource(given.patient_id, given.code, system_url, display,
                             given.value, given.unit, given.status)
    ELSE ConditionResource(given.patient_id, given.code, system_url, display,
                           given.clinical_status)

\* a slip: `if display is None: raise ValidationError`, a code without a
\* display is not written
CreateLooked_NeedsDisplay(given, system, checks, lt, statuses) ==
    With(GetDisplayName(system, given.code, lt), LAMBDA display :
    With(GetCodeSystemUrl(system), LAMBDA system_url :
    With(<<[system |-> system, code |-> given.code]>>, LAMBDA looked :
        IF Raised(display) THEN Trace(display, 0, checks, looked, <<>>)
        ELSE IF display.val = Null THEN Trace(Raise("ValidationError"), 0, checks, looked, <<>>)
        ELSE IF Raised(system_url) THEN Trace(system_url, 0, checks, looked, <<>>)
        ELSE With(CreateResource(ResourceOf(given, display.val, system_url.val), statuses),
                  LAMBDA c : Trace(c.out, c.attempts, checks, looked, <<>>)))))

\* the part create_observation and create_condition share, after validation:
\* look up the display, resolve the system, build the resource, post it
CreateLooked(given, system, checks, lt, statuses) ==
    With(GetDisplayName(system, given.code, lt), LAMBDA display :
    With(GetCodeSystemUrl(system), LAMBDA system_url :
    With(<<[system |-> system, code |-> given.code]>>, LAMBDA looked :
        IF Raised(display) THEN Trace(display, 0, checks, looked, <<>>)
        ELSE IF Raised(system_url) THEN Trace(system_url, 0, checks, looked, <<>>)
        ELSE With(CreateResource(ResourceOf(given, display.val, system_url.val), statuses),
                  LAMBDA c : Trace(c.out, c.attempts, checks, looked, <<>>)))))

\* if should_validate: if not is_valid_code(code, system): raise ValidationError
CreateValidated(given, system, validate, default, vt, lt, statuses) ==
    IF ShouldValidate(validate, default)
    THEN With(IsValidCode(given.code, system, vt), LAMBDA valid :
            IF Raised(valid)
            THEN Trace(valid, 0, <<>>, <<>>, <<>>)
            ELSE IF ~Truthy(valid.val)
            THEN Trace(Raise("ValidationError"), 0,
                       <<ValidatedCall(given.code, system, valid.val)>>, <<>>, <<>>)
            ELSE CreateLooked(given, system,
                              <<ValidatedCall(given.code, system, valid.val)>>, lt, statuses))
    ELSE CreateLooked(given, system, <<>>, lt, statuses)

\* IntegratedFHIRClient.create_observation
CreateObservationCall(patient_id, code, system, value, unit, status, validate, default, vt, lt, statuses) ==
    CreateValidated([resourceType |-> "Observation", patient_id |-> patient_id,
                     code |-> code, value |-> value, unit |-> unit, status |-> status],
                    system, validate, default, vt, lt, statuses)

\* IntegratedFHIRClient.create_condition
CreateConditionCall(patient_id, code, system, clinical_status, validate, default, vt, lt, statuses) ==
    CreateValidated([resourceType |-> "Condition", patient_id |-> patient_id,
                     code |-> code, clinical_status |-> clinical_status],
                    system, validate, default, vt, lt, statuses)

\* read_observation / read_condition: read_resource, then _enrich_codings
\* when enrichment is in effect
ReadCall(stored, enrich, default, lt, statuses) ==
    With(ReadResource(stored, statuses), LAMBDA r : Sending(r.attempts,
        IF Raised(r.out) THEN Trace(r.out, 0, <<>>, <<>>, <<>>)
        ELSE IF ShouldEnrich(enrich, default)
        THEN With(EnrichCodings(r.out.val, lt), LAMBDA e :
                Trace([exc |-> e.exc, val |-> e.val], 0, <<>>, e.log, <<>>))
        ELSE Trace(r.out, 0, <<>>, <<>>, <<>>)))

\* for param in result.get("parameter", []): if param.get("name") == "outcome"
\* and param.get("valueCode") in ["subsumes", "equivalent"]: some parameter
\* makes the candidate related
OutcomeKeeps(params) ==
    \E i \in 1..Len(params) :
        /\ Get(params[i], "name", Null) = Str("outcome")
        /\ Get(params[i], "valueCode", Null) \in {Str("subsumes"), Str("equivalent")}

SubsumptionCall(code_a, code_b, system) == [code_a |-> code_a, code_b |-> code_b, system |-> system]

\* the body of the try block of find_related_conditions for one coding:
\* [exc, keep, log]
SubsumptionStepUnguarded(parent_code, coding, system, table) ==
    IF ~Has(coding, "code") THEN [exc |-> "KeyError", keep |-> FALSE, log |-> <<>>]
    ELSE With(CheckSubsumption(parent_code, Get(coding, "code", Null), system, table),
              LAMBDA result :
                 [exc |-> result.exc,
                  keep |-> IF Raised(result) THEN FALSE
                           ELSE OutcomeKeeps(Get(result.val, "parameter", List(<<>>)).items),
                  log |-> <<SubsumptionCall(parent_code, Get(coding, "code", Null), system)>>])

\* a slip: the subsumption check outside any try block
SubsumptionStep_NoTry(parent_code, coding, system, table) ==
    SubsumptionStepUnguarded(parent_code, coding, system, table)

\* try: ... except Exception: pass
SubsumptionStep(parent_code, coding, system, table) ==
    With(SubsumptionStepUnguarded(parent_code, coding, system, table), LAMBDA r :
        IF r.exc # "none" THEN [exc |-> "none", keep |-> FALSE, log |-> r.log] ELSE r)

\* for coding in codings: ... ; acc = [exc, related, log]
RECURSIVE RelatedCodings(_, _, _, _, _, _, _)
RelatedCodings(condition, codings, j, parent_code, system, table, acc) ==
    IF j > Len(codings) \/ acc.exc # "none" THEN acc
    ELSE IF GetCodeSystemUrl(system).val = Get(codings[j], "system", Null)
    THEN With(SubsumptionStep(parent_code, codings[j], system, table), LAMBDA r :
            RelatedCodings(condition, codings, j + 1, parent_code, system, table,
                [exc |-> r.exc,
                 related |-> IF r.keep THEN Append(acc.related, condition) ELSE acc.related,
                 log |-> acc.log \o r.log]))
    ELSE RelatedCodings(condition, codings, j + 1, parent_code, system, table, acc)

\* for condition in all_conditions:
\*     codings = condition.get("code", {}).get("coding", [])
RECURSIVE RelatedConditions(_, _, _, _, _, _)
RelatedConditions(conditions, i, parent_code, system, table, acc) ==
    IF i > Len(conditions) \/ acc.exc # "none" THEN acc
    ELSE RelatedConditions(conditions, i + 1, parent_code, system, table,
            RelatedCodings(conditions[i],
                Get(Get(conditions[i], "code", Dict(<<>>)), "coding", List(<<>>)).items,
                1, parent_code, system, table, acc))

\* [e["resource"] for e in bundle.get("entry", [])]
Resources(bundle) ==
    With(Get(bundle, "entry", List(<<>>)).items, LAMBDA entries :
        [i \in 1..Len(entries) |-> Get(entries[i], "resource", Null)])

\* related = [self._enrich_codings(r) for r in related]
EnrichAll(related, lt) == RecursiveEnrich(List(related), lt)

\* IntegratedFHIRClient.find_related_conditions
FindRelatedConditionsCall(patient_id, parent_code, system, default, st, lt, bundle, statuses) ==
    With(Search(bundle, statuses), LAMBDA b : Sending(b.attempts,
        IF Raised(b.out) THEN Trace(b.out, 0, <<>>, <<>>, <<>>)
        ELSE With(RelatedConditions(Resources(b.out.val), 1, parent_code, system, st,
                                    [exc |-> "none", related |-> <<>>, log |-> <<>>]),
                  LAMBDA r :
                     IF r.exc # "none" THEN Trace(Raise(r.exc), 0, <<>>, <<>>, r.log)
                     ELSE IF default
                     THEN With(EnrichAll(r.related, lt), LAMBDA e :
                             Trace([exc |-> e.exc, val |-> e.val], 0, <<>>, e.log, r.log))
                     ELSE Trace(Ret(List(r.related)), 0, <<>>, <<>>, r.log))))

\* the observation carries the coding system_url|code
CodedAs(observation, system_url, code) ==
    With(Get(Get(observation, "code", Dict(<<>>)), "coding", List(<<>>)).items, LAMBDA cs :
        \E i \in 1..Len(cs) :
            Get(cs[i], "system", Null) = system_url /\ Get(cs[i], "code", Null) = code)

\* the data server's answer to the query {"patient": patient_id, "code":
\* f"{system_url}|{code}"} over the observations it holds for the patient:
\* a token search matches the code itself; a bundle without matches has no entry
SearchBundle(held, system_url, code) ==
    With(SelectSeq(held, LAMBDA o : CodedAs(o, system_url, code)), LAMBDA found :
        IF found = <<>> THEN Dict(<<KV("resourceType", Str("Bundle"))>>)
        ELSE Dict(<<KV("resourceType", Str("Bundle")),
                    KV("entry", List([i \in 1..Len(found) |->
                                         Dict(<<KV("resource", found[i])>>)]))>>))

\* IntegratedFHIRClient.search_observations_by_category: codes_to_search is
\* [category_code] and nothing is added to it; include_children is not read
SearchObservationsByCategoryCall(patient_id, category_code, system, include_children, default, lt, held, statuses) ==
    With(GetCodeSystemUrl(system), LAMBDA system_url :
        IF Raised(system_url) THEN Trace(system_url, 0, <<>>, <<>>, <<>>)
        ELSE With(Search(SearchBundle(held, system_url.val, category_code), statuses),
                  LAMBDA b : Sending(b.attempts,
                     IF Raised(b.out) THEN Trace(b.out, 0, <<>>, <<>>, <<>>)
                     ELSE IF default
                     THEN With(EnrichAll(Resources(b.out.val), lt), LAMBDA e :
                             Trace([exc |-> e.exc, val |-> e.val], 0, <<>>, e.log, <<>>))
                     ELSE Trace(Ret(List(Resources(b.out.val))), 0, <<>>, <<>>, <<>>))))

\* {"value": c["code"], "label": c.get("display", c["code"])}
Option(c) ==
    Dict(<<KV("value", Get(c, "code", Null)),
           KV("label", Get(c, "display", Get(c, "code", Null)))>>)

\* IntegratedFHIRClient.get_value_set_options: c["code"] is a KeyError for a
\* member without a code
GetValueSetOptions(value_set_url, table) ==
    Try(ExpandValueSet(value_set_url, Null, table), LAMBDA result :
        With(Contains(result).items, LAMBDA cs :
            IF \E i \in 1..Len(cs) : ~Has(cs[i], "code") THEN Raise("KeyError")
            ELSE Ret(List([i \in 1..Len(cs) |-> Option(cs[i])]))))

\* f"{path}.coding[{i}]: Invalid code '{code}' in system '{system}'"
InvalidCode(path, i, code, system) ==
    [t |-> "error", path |-> path, index |-> i, code |-> code, system |-> system]

\* the body of the loop of check_codings for coding number i (from 0) of the
\* coded element at path
CheckCoding(coding, i, path, table) ==
    With(Get(coding, "system", Null), LAMBDA system :
    With(Get(coding, "code", Null), LAMBDA code :
        IF Truthy(system) /\ Truthy(code)
        THEN With(IsValidCode(code, system, table), LAMBDA ok :
                 IF Raised(ok) THEN Aborted(ok.exc, <<ValidatedCall(code, system, Null)>>)
                 ELSE Walked(IF ~Truthy(ok.val) THEN <<InvalidCode(path, i, code, system)>>
                             ELSE <<>>,
                             <<ValidatedCall(code, system, ok.val)>>))
        ELSE Walked(<<>>, <<>>)))

\* the errors of the walked items, one after the other
Errors(w) == IF Raised(w) THEN w ELSE [w EXCEPT !.val = Concat(w.val)]

\* check_codings(obj, path): the errors appended while obj is walked, and
\* the is_valid_code calls made; a path is the keys and indices from the root
RECURSIVE CheckCodings(_, _, _)
CheckCodings(obj, path, table) ==
    LET \* for i, coding in enumerate(obj["coding"])
        Own == IF Has(obj, "coding") /\ IsList(Get(obj, "coding", Null))
               THEN Errors(InOrder([i \in 1..Len(Get(obj, "coding", Null).items) |->
                                       CheckCoding(Get(obj, "coding", Null).items[i],
                                                   i - 1, path, table)]))
               ELSE Walked(<<>>, <<>>)
        \* for key, value in obj.items(): check_codings(value, path + key)
        Below == Errors(InOrder([i \in 1..Len(obj.kv) |->
                                    CheckCodings(obj.kv[i].v, Append(path, Str(obj.kv[i].k)),
                                                 table)]))
    IN  IF IsDict(obj)
        THEN With(Own, LAMBDA own :
                 IF Raised(own) THEN own
                 ELSE With(Below, LAMBDA below :
                          IF Raised(below) THEN After(own.log, below)
                          ELSE Walked(own.val \o below.val, own.log \o below.log)))
        ELSE IF IsList(obj)
        THEN \* for i, item in enumerate(obj): check_codings(item, f"{path}[{i}]")
             Errors(InOrder([i \in 1..Len(obj.items) |->
                                CheckCodings(obj.items[i], Append(path, Num(i - 1)), table)]))
        ELSE Walked(<<>>, <<>>)

\* a slip: `return errors[:1]`, only the first invalid coding is reported
ValidateResourceCodes_FirstOnly(resource, table) ==
    With(CheckCodings(resource, <<>>, table), LAMBDA w :
        IF Raised(w) THEN Trace([exc |-> w.exc, val |-> Null], 0, w.log, <<>>, <<>>)
        ELSE Trace(Ret(List(SubSeq(w.val, 1, IF w.val = <<>> THEN 0 ELSE 1))),
                   0, w.log, <<>>, <<>>))

\* IntegratedFHIRClient.validate_resource_codes
ValidateResourceCodes(resource, table) ==
    With(CheckCodings(resource, <<>>, table), LAMBDA w :
        IF Raised(w) THEN Trace([exc |-> w.exc, val |-> Null], 0, w.log, <<>>, <<>>)
        ELSE Trace(Ret(List(w.val)), 0, w.log, <<>>, <<>>))

\* TerminologyService.translate_code(code, source_system, target_system): the
\* table is keyed by (source url, code)
TranslateCode(code, source_system, target_system, table) ==
    Try(GetCodeSystemUrl(source_system), LAMBDA source_url :
    Try(GetCodeSystemUrl(target_system), LAMBDA target_url :
        MakeRequest("GET", "ConceptMap/$translate",
                    Served(Answer(table, source_url, code)))))

TranslateCall(coding, target_system) ==
    [system |-> Get(coding, "system", Str("")), code |-> Get(coding, "code", Str("")),
     target |-> target_system]

\* for part in param.get("part", []): if part.get("name") == "concept":
\* the valueCoding of the first such part, as a sequence of zero or one coding
ConceptOf(param) ==
    With(FirstParam(Get(param, "part", List(<<>>)).items, "concept"), LAMBDA part :
        IF part = Null THEN <<>> ELSE <<Get(part, "valueCoding", Dict(<<>>))>>)

\* for param in result.get("parameter", []): if param.get("name") == "match":
\* what the parameters from the n-th on append to the condition
RECURSIVE Translated(_, _)
Translated(params, n) ==
    IF n > Len(params) THEN <<>>
    ELSE (IF Get(params[n], "name", Null) = Str("match") THEN ConceptOf(params[n]) ELSE <<>>)
         \o Translated(params, n + 1)

\* the body of the try block of translate_condition_codes for the i-th
\* coding: [exc, codings], the coding list after it
TranslateStepUnguarded(codings, i, target_system, table) ==
    With(TranslateCode(Get(codings[i], "code", Str("")), Get(codings[i], "system", Str("")),
                       target_system, table),
         LAMBDA result :
            IF Raised(result) THEN [exc |-> result.exc, codings |-> codings]
            ELSE [exc |-> "none",
                  codings |-> codings
                              \o Translated(Get(result.val, "parameter", List(<<>>)).items, 1)])

\* a slip: the translation outside any try block
TranslateStep_NoTry(codings, i, target_system, table) ==
    TranslateStepUnguarded(codings, i, target_system, table)

\* a slip: `except Exception: codings.remove(coding)`, a coding that cannot be
\* translated is taken out of the record
TranslateStep_DropsFailed(codings, i, target_system, table) ==
    With(TranslateStepUnguarded(codings, i, target_system, table), LAMBDA r :
        IF r.exc # "none"
        THEN [exc |-> "none", codings |-> SubSeq(codings, 1, i - 1)
                                          \o SubSeq(codings, i + 1, Len(codings))]
        ELSE r)

\* try: ... except Exception as e: logger.warning(...)
TranslateStep(codings, i, target_system, table) ==
    With(TranslateStepUnguarded(codings, i, target_system, table), LAMBDA r :
        IF r.exc # "none" THEN [exc |-> "none", codings |-> codings] ELSE r)

\* for coding in codings: the loop runs over the list it appends to, so a
\* coding appended by an earlier step is visited too; acc = [exc, codings, log].
\* The loop is followed for MaxVisits codings.
RECURSIVE TranslateCodings(_, _, _, _)
TranslateCodings(i, target_system, table, acc) ==
    IF i > Len(acc.codings) \/ acc.exc # "none" \/ i > MaxVisits THEN acc
    ELSE With(TranslateStep(acc.codings, i, target_system, table), LAMBDA r :
            TranslateCodings(i + 1, target_system, table,
                [exc |-> r.exc, codings |-> r.codings,
                 log |-> Append(acc.log, TranslateCall(acc.codings[i], target_system))]))

\* the trace of a call with the translate_code calls it made
Translating(log, tr) == [tr EXCEPT !.translations = log]

\* the trace of a call that has not returned: its loop is still running
Running(tr) == [tr EXCEPT !.ended = FALSE]

\* IntegratedFHIRClient.translate_condition_codes: the condition is changed
\* in place only when it holds the list the loop ran over
TranslateConditionCodesCall(condition, target_system, table) ==
    IF ~(Has(condition, "code") /\ Has(Get(condition, "code", Null), "coding"))
    THEN Trace(Ret(condition), 0, <<>>, <<>>, <<>>)
    ELSE With(TranslateCodings(1, target_system, table,
                  [exc |-> "none", log |-> <<>>,
                   codings |-> Get(Get(condition, "code", Null), "coding", Null).items]),
              LAMBDA r : Translating(r.log,
                 IF r.exc # "none" THEN Trace(Raise(r.exc), 0, <<>>, <<>>, <<>>)
                 ELSE IF Len(r.codings) > Len(r.log)
                 THEN \* codings are left to visit after MaxVisits of them
                      Running(Trace(Ret(Null), 0, <<>>, <<>>, <<>>))
                 ELSE Trace(Ret(Put(condition, "code",
                                    Put(Get(condition, "code", Null), "coding",
                                        List(r.codings)))),
                            0, <<>>, <<>>, <<>>)))

----------------------------------------------------------------------------
(* The inputs of the calls and the behaviours of the two servers *)

\* a Parameters body with one parameter {name, <field>: value}
Param(name, field, value) == Dict(<<KV("name", Str(name)), KV(field, value)>>)
Parameters(params) == Dict(<<KV("resourceType", Str("Parameters")), KV("parameter", List(params))>>)

PatientIds == {"123"}
CodeInputs == {Str("29463-7"), Str("FAKE123")}
SystemInputs == {Str("loinc"), Str("LOINC"), Str(UNKNOWN)}
OverrideInputs == {Null, Bool(TRUE), Bool(FALSE)}
ClinicalStatusInputs == {Str("active")}

\* answers of the vocabulary server to $validate-code
ValidTrue == Parameters(<<Param("result", "valueBoolean", Bool(TRUE))>>)
ValidFalse == Parameters(<<Param("result", "valueBoolean", Bool(FALSE)),
                           Param("message", "valueString", Str("Unknown code"))>>)
ValidateAnswers ==
    {Unreachable, ValidTrue, ValidFalse,
     Parameters(<<Param("message", "valueString", Str("no result"))>>),
     Parameters(<<Dict(<<KV("name", Str("result"))>>)>>),
     Dict(<<KV("resourceType", Str("OperationOutcome"))>>)}

\* answers of the vocabulary server to $lookup
WithDisplay == Parameters(<<Param("name", "valueString", Str("LOINC")),
                            Param("display", "valueString", Str("Display of code"))>>)
NoDisplay == Parameters(<<Param("name", "valueString", Str("LOINC"))>>)
LookupAnswers == {Unreachable, NoDisplay, WithDisplay}

\* answers of the vocabulary server to $subsumes
OutcomeOf(o) == Parameters(<<Param("outcome", "valueCode", Str(o))>>)
SubsumesAnswers ==
    {Unreachable, OutcomeOf("subsumes"), OutcomeOf("equivalent"),
     OutcomeOf("subsumed-by"), OutcomeOf("not-subsumed")}

\* statuses of the data server for the attempts of one request
AllOf(status) == [i \in 1..(RetryTotal + 1) |-> status]
StatusSeqs == {AllOf(201), <<503, 503, 201, 201>>, AllOf(500)}
ReadStatusSeqs == {AllOf(200), AllOf(404), AllOf(Timeout)}
Succeeds(statuses) == ~Raised(Request(statuses, Null).out)

\* the table domain of a call that asks about one (system, code)
OnePair(system, code) == {<<GetCodeSystemUrl(system).val, code>>}

\* codings a record read from the data server may carry
Systolic == Str("8480-6")
Diastolic == Str("8462-4")
Coding(kv) == Dict(kv)
SampleCodings ==
    {Coding(<<KV("system", Str(LOINC)), KV("code", Systolic)>>),
     Coding(<<KV("system", Str("loinc")), KV("code", Diastolic), KV("display", Str(""))>>),
     Coding(<<KV("system", Str(LOINC)), KV("code", Diastolic), KV("display", Str("Given display"))>>),
     Coding(<<KV("code", Systolic)>>)}

\* sequences over S of length at most n
RECURSIVE SeqsUpTo(_, _)
SeqsUpTo(S, n) ==
    IF n = 0 THEN {<<>>}
    ELSE LET shorter == SeqsUpTo(S, n - 1)
         IN  shorter \cup {Append(q, x) : q \in {r \in shorter : Len(r) = n - 1}, x \in S}

\* coded elements: {"coding": [...]} with or without a text
CodedElements ==
    LET lists == SeqsUpTo(SampleCodings, MaxCodings)
    IN  {Dict(<<KV("coding", List(cs))>>) : cs \in lists}
        \cup {Dict(<<KV("coding", List(cs)), KV("text", t)>>) :
                 cs \in lists, t \in {Str(""), Str("Given text")}}

\* coded elements used at depth: one or two codings that lack a display
DeepElements ==
    {Dict(<<KV("coding", List(cs))>>) :
        cs \in {q \in SeqsUpTo({Coding(<<KV("system", Str(LOINC)), KV("code", Systolic)>>),
                                 Coding(<<KV("code", Diastolic), KV("system", Str(LOINC))>>)}, 2) :
                    q # <<>>}}

\* records the data server may hold: a coded element at the top, or coded
\* elements in a list, below a list of components and inside a coding
FlatRecords ==
    {Dict(<<KV("resourceType", Str("Observation")), KV("id", Str("1")), KV("code", ce)>>) :
        ce \in CodedElements}
DeepRecords ==
    {Dict(<<KV("resourceType", Str("Observation")),
            KV("category", List(<<a>>)),
            KV("code", Dict(<<KV("coding", List(<<Put(b.kv[1].v.items[1], "coding", List(<<>>)),
                                                   Put(b.kv[1].v.items[1], "coding", a.kv[1].v)>>))>>)),
            KV("component", List(<<Dict(<<KV("code", b)>>), Dict(<<KV("code", a)>>)>>))>>) :
        a \in DeepElements, b \in DeepElements}
Records == FlatRecords \cup DeepRecords

\* all codings of all coded elements of a value, at any depth, in depth-first
\* pre-order: a node's own codings, then its children in their own order
RECURSIVE CodingsIn(_)
CodingsIn(x) ==
    IF IsDict(x)
    THEN (IF Has(x, "coding") /\ IsList(Get(x, "coding", Null))
          THEN Get(x, "coding", Null).items ELSE <<>>)
         \o Concat([i \in 1..Len(x.kv) |-> CodingsIn(x.kv[i].v)])
    ELSE IF IsList(x) THEN Concat([i \in 1..Len(x.items) |-> CodingsIn(x.items[i])])
    ELSE <<>>

\* a coding for which enrichment asks the vocabulary server
LacksDisplay(c) == Has(c, "system") /\ Has(c, "code") /\ ~Truthy(Get(c, "display", Null))

Range(q) == {q[i] : i \in 1..Len(q)}

\* the (system url, code) pairs enrichment of the record asks about
LookupPairs(record) ==
    {<<GetCodeSystemUrl(Get(c, "system", Null)).val, Get(c, "code", Null)>> :
        c \in {d \in Range(CodingsIn(record)) : LacksDisplay(d)}}

\* the (system url, code) pairs validation of the resource asks about
ValidatePairs(resource) ==
    {<<GetCodeSystemUrl(Get(c, "system", Null)).val, Get(c, "code", Null)>> :
        c \in {d \in Range(CodingsIn(resource)) :
                  Truthy(Get(d, "system", Null)) /\ Truthy(Get(d, "code", Null))}}

\* candidate Conditions of a search bundle
CandidateCodings ==
    {<<>>,
     <<Coding(<<KV("system", Str(SNOMED)), KV("code", Systolic)>>)>>,
     <<Coding(<<KV("system", Str(SNOMED)), KV("code", Diastolic)>>)>>,
     <<Coding(<<KV("system", Str(LOINC)), KV("code", Systolic)>>),
       Coding(<<KV("system", Str(SNOMED))>>)>>,
     <<Coding(<<KV("system", Str(SNOMED)), KV("code", Diastolic)>>),
       Coding(<<KV("system", Str(SNOMED)), KV("code", Systolic)>>)>>}
Candidate(id, codings) ==
    Dict(<<KV("resourceType", Str("Condition")), KV("id", Num(id)),
           KV("code", Dict(<<KV("coding", List(codings))>>))>>)
Bundle(codingLists) ==
    Dict(<<KV("resourceType", Str("Bundle")),
           KV("entry", List([i \in 1..Len(codingLists) |->
                                Dict(<<KV("resource", Candidate(i, codingLists[i]))>>)]))>>)
Bundles ==
    {Bundle(q) : q \in SeqsUpTo(CandidateCodings, MaxCandidates)}
    \cup {Dict(<<KV("resourceType", Str("Bundle"))>>)}
ParentCodes == {Str("49601007")}

\* the (code_a, code_b) pairs a hierarchy search over the bundle may ask about
SubsumptionPairs(parent_code, bundle) ==
    {<<parent_code, Get(c, "code", Null)>> :
        c \in {d \in Range(CodingsIn(bundle)) : Has(d, "code")}}

\* observations the data server holds for the patient: a panel code and codes
\* the vocabulary may place below it
PanelCode == Str("85354-9")
ObservedCodes == {PanelCode, Systolic, Diastolic}
HeldObservation(id, code) ==
    Dict(<<KV("resourceType", Str("Observation")), KV("id", Num(id)),
           KV("code", Dict(<<KV("coding", List(<<Coding(<<KV("system", Str(LOINC)),
                                                          KV("code", code)>>)>>))>>))>>)
HeldObservations ==
    {[i \in 1..Len(q) |-> HeldObservation(i, q[i])] : q \in SeqsUpTo(ObservedCodes, MaxCandidates)}

\* what the vocabulary server knows of the hierarchy below the panel code
HierarchyAnswers == {OutcomeOf("subsumes"), OutcomeOf("not-subsumed")}

\* answers of the vocabulary server to $translate
NoMatch == Parameters(<<Param("result", "valueBoolean", Bool(FALSE))>>)
Match ==
    Parameters(<<Param("result", "valueBoolean", Bool(TRUE)),
                 Dict(<<KV("name", Str("match")),
                        KV("part", List(<<Param("equivalence", "valueCode", Str("equivalent")),
                                          Param("concept", "valueCoding",
                                                Coding(<<KV("system", Str(SNOMED)),
                                                         KV("code", Str("38341003"))>>))>>))>>)>>)
TranslateAnswers == {Unreachable, NoMatch, Match}
TargetInputs == {Str("snomed"), Str("icd10")}

\* statuses of the data server for the attempts of a request made on the
\* FHIRClient itself; the last one has an answer left the client never asks for
TransportStatusSeqs ==
    {AllOf(200), AllOf(204), AllOf(201), AllOf(202), AllOf(404), AllOf(500), AllOf(Timeout),
     <<503, 503, 200, 200>>, <<503, 503, 201, 201>>, <<500, 500, 500, 200>>,
     <<Timeout, 200, 200, 200>>, <<429, 502, 504, 503>>, <<503, 404, 200, 200>>,
     <<500, 500, 500, 500, 200>>}

\* resources handed to create_resource and update_resource
ResourceInputs ==
    {Dict(<<KV("resourceType", Str("Patient")), KV("id", Str("1"))>>),
     Dict(<<KV("resourceType", Str("Patient"))>>),
     Dict(<<KV("id", Str("1"))>>),
     Dict(<<KV("name", Str("Ann"))>>)}

\* answers of the vocabulary server to $expand
Expansion(members) ==
    Dict(<<KV("resourceType", Str("ValueSet")),
           KV("expansion", Dict(<<KV("contains", List(members))>>))>>)
EmptyExpansion == Expansion(<<>>)
NoExpansion == Dict(<<KV("resourceType", Str("ValueSet"))>>)
ExpandAnswers ==
    {Unreachable, EmptyExpansion, NoExpansion,
     Expansion(<<Coding(<<KV("code", Str("male")), KV("display", Str("Male"))>>),
                 Coding(<<KV("code", Str("female"))>>)>>)}
ValueSetUrls == {Str("http://hl7.org/fhir/ValueSet/administrative-gender")}

\* names handed to get_code_system_url: the aliases, an alias in capitals,
\* canonical URIs and a URI the table does not know
CodeSystemInputs ==
    {Str(a) : a \in DOMAIN CODE_SYSTEMS}
    \cup {Str("LOINC"), Str("Loinc"), Str(LOINC), Str(SNOMED), Str(ICD10CM), Str(UNKNOWN), Str("")}

\* the conditions handed to translate_condition_codes
TranslateConditions ==
    {Candidate(1, q) : q \in CandidateCodings}
    \cup {Dict(<<KV("resourceType", Str("Condition")), KV("id", Num(1))>>)}

\* the codings of condition.code.coding
CodeCodings(condition) ==
    Get(Get(condition, "code", Dict(<<>>)), "coding", List(<<>>)).items

\* the (source url, code) pairs a translation of the condition asks about:
\* its codings and the coding a match appends
TranslatePairs(condition) ==
    {<<GetCodeSystemUrl(Get(c, "system", Str(""))).val, Get(c, "code", Str(""))>> :
        c \in Range(CodeCodings(condition))}
    \cup {<<Str(SNOMED), Str("38341003")>>}

----------------------------------------------------------------------------
(* The state machine: a client is constructed, then a call is made *)

NoTable == <<>>
NoVocab ==
    [validate |-> NoTable, lookup |-> NoTable, subsumes |-> NoTable,
     translate |-> NoTable, expand |-> NoTable]
NoData == [statuses |-> <<>>, stored |-> Null]

\* IntegratedFHIRClient.__init__, but for the client of the vocabulary service
Constructed ==
    /\ validate_codes \in BOOLEAN
    /\ enrich_display \in BOOLEAN
    /\ phase = "idle"
    /\ op = "none"
    /\ args = <<>>
    /\ vocab = NoVocab
    /\ data = NoData
    /\ outcome = Ret(Null)
    /\ posts = 0
    /\ validated = <<>>
    /\ lookups = <<>>
    /\ subsumptions = <<>>
    /\ runs = 0
    /\ sent = 0
    /\ translations = <<>>

\* self.terminology = TerminologyService(FHIRClient(terminology_server, auth=auth))
Init == Constructed /\ client = FHIRClientAttrs

\* TerminologyService.__init__ stores the client it is given: here the
\* gateway's vocabulary service holds a client that does provide
\* _make_request(method, endpoint, params), so its requests reach the server
InitServed == Constructed /\ client = FHIRClientAttrs \cup {"_make_request"}

\* the call ends: its trace becomes the state
Finish(name, a, v, d, tr, r) ==
    /\ phase = "idle"
    /\ phase' = IF tr.ended THEN "done" ELSE "running"
    /\ op' = name
    /\ args' = a
    /\ vocab' = v
    /\ data' = d
    /\ outcome' = tr.out
    /\ posts' = tr.posts
    /\ validated' = tr.validated
    /\ lookups' = tr.lookups
    /\ subsumptions' = tr.subsumptions
    /\ runs' = r
    /\ sent' = tr.sent
    /\ translations' = tr.translations
    /\ UNCHANGED <<validate_codes, enrich_display, client>>

\* terminology.is_valid_code(code, system) called on its own
IsValidCodeCall ==
    /\ phase = "idle"
    /\ \E code \in CodeInputs, system \in SystemInputs :
       \E vt \in [OnePair(system, code) -> ValidateAnswers] :
           Finish("is_valid_code", [code |-> code, system |-> system],
                  [NoVocab EXCEPT !.validate = vt], NoData,
                  With(IsValidCode(code, system, vt), LAMBDA r :
                      Trace(r, 0, <<ValidatedCall(code, system, r.val)>>, <<>>, <<>>)), 0)

\* client.create_observation(patient_id, code, system, value, unit, validate=...)
CreateObservation ==
    /\ phase = "idle"
    /\ \E patient_id \in PatientIds, code \in CodeInputs, system \in SystemInputs,
          validate \in OverrideInputs, statuses \in StatusSeqs :
       \E vt \in [OnePair(system, code) -> ValidateAnswers],
          lt \in [OnePair(system, code) -> LookupAnswers] :
           Finish("create_observation",
                  [patient_id |-> patient_id, code |-> code, system |-> system,
                   validate |-> validate],
                  [NoVocab EXCEPT !.validate = vt, !.lookup = lt],
                  [statuses |-> statuses, stored |-> Null],
                  CreateObservationCall(patient_id, code, system, Num(70), Str("kg"),
                                        Str("final"), validate, validate_codes,
                                        vt, lt, statuses), 0)

\* client.create_condition(patient_id, code, system, clinical_status, validate=...)
CreateCondition ==
    /\ phase = "idle"
    /\ \E patient_id \in PatientIds, code \in CodeInputs, system \in SystemInputs,
          clinical_status \in ClinicalStatusInputs,
          validate \in OverrideInputs, statuses \in StatusSeqs :
       \E vt \in [OnePair(system, code) -> ValidateAnswers],
          lt \in [OnePair(system, code) -> LookupAnswers] :
           Finish("create_condition",
                  [patient_id |-> patient_id, code |-> code, system |-> system,
                   clinical_status |-> clinical_status, validate |-> validate],
                  [NoVocab EXCEPT !.validate = vt, !.lookup = lt],
                  [statuses |-> statuses, stored |-> Null],
                  CreateConditionCall(patient_id, code, system, clinical_status,
                                      validate, validate_codes, vt, lt, statuses), 0)

\* a read ends: the record counts as enriched once when enrichment ran
FinishRead(name, enrich, lt, statuses, stored, tr) ==
    Finish(name, [enrich |-> enrich], [NoVocab EXCEPT !.lookup = lt],
           [statuses |-> statuses, stored |-> stored], tr,
           IF ~Raised(tr.out) /\ ShouldEnrich(enrich, enrich_display) THEN 1 ELSE 0)

\* a read: the data server holds `stored` when it answers the request
Read(name, rtype) ==
    /\ phase = "idle"
    /\ \E enrich \in OverrideInputs, statuses \in ReadStatusSeqs :
       \E record \in IF Succeeds(statuses) THEN Records ELSE {Null} :
       \E lt \in [IF record = Null THEN {} ELSE LookupPairs(record) -> LookupAnswers] :
           With(IF record = Null THEN Null ELSE Put(record, "resourceType", Str(rtype)),
                LAMBDA stored :
                   FinishRead(name, enrich, lt, statuses, stored,
                              ReadCall(stored, enrich, enrich_display, lt, statuses)))

\* client.read_observation(observation_id, enrich=...)
ReadObservation == Read("read_observation", "Observation")

\* client.read_condition(condition_id, enrich=...)
ReadCondition == Read("read_condition", "Condition")

\* client._enrich_codings(record) applied again to the record a read returned
\* enriched, the vocabulary server answering as before
EnrichAgain ==
    /\ phase = "done"
    /\ runs = 1
    /\ With(EnrichCodings(outcome.val, vocab.lookup), LAMBDA e :
            /\ outcome' = [exc |-> e.exc, val |-> e.val]
            /\ lookups' = lookups \o e.log)
    /\ runs' = 2
    /\ UNCHANGED <<validate_codes, enrich_display, client, phase, op, args, vocab, data,
                   posts, validated, subsumptions, sent, translations>>

\* client.find_related_conditions(patient_id, parent_code, system)
FindRelatedConditions ==
    /\ phase = "idle"
    /\ \E patient_id \in PatientIds, parent_code \in ParentCodes,
          system \in {Str("snomed"), Str(SNOMED)}, statuses \in ReadStatusSeqs :
       \E bundle \in IF Succeeds(statuses) THEN Bundles ELSE {Null} :
       \E st \in [IF bundle = Null THEN {} ELSE SubsumptionPairs(parent_code, bundle)
                     -> SubsumesAnswers],
          answer \in {Unreachable, WithDisplay} :
           LET lt == [p \in {Str(SNOMED), Str(LOINC)} \X {Systolic, Diastolic} |-> answer]
           IN  Finish("find_related_conditions",
                      [patient_id |-> patient_id, parent_code |-> parent_code, system |-> system],
                      [NoVocab EXCEPT !.subsumes = st, !.lookup = lt],
                      [statuses |-> statuses, stored |-> bundle],
                      FindRelatedConditionsCall(patient_id, parent_code, system, enrich_display,
                                                st, lt, bundle, statuses), 0)

\* client.translate_condition_codes(condition, target_system)
TranslateConditionCodes ==
    /\ phase = "idle"
    /\ \E condition \in TranslateConditions, target_system \in TargetInputs :
       \E tt \in [TranslatePairs(condition) -> TranslateAnswers] :
           Finish("translate_condition_codes",
                  [condition |-> condition, target_system |-> target_system],
                  [NoVocab EXCEPT !.translate = tt], NoData,
                  TranslateConditionCodesCall(condition, target_system, tt), 0)

\* terminology.get_code_system_url(code_system) called on its own
GetCodeSystemUrlCall ==
    /\ phase = "idle"
    /\ \E code_system \in CodeSystemInputs :
           Finish("get_code_system_url", [code_system |-> code_system], NoVocab, NoData,
                  Trace(GetCodeSystemUrl(code_system), 0, <<>>, <<>>, <<>>), 0)

\* terminology.get_code_system_url applied to the value it returned
ResolveAgain ==
    /\ phase = "done"
    /\ op = "get_code_system_url"
    /\ outcome.exc = "none"
    /\ phase' = "again"
    /\ outcome' = GetCodeSystemUrl(outcome.val)
    /\ UNCHANGED <<validate_codes, enrich_display, client, op, args, vocab, data, posts,
                   validated, lookups, subsumptions, runs, sent, translations>>

\* a call on the FHIRClient ends: r = [attempts, out]
FinishRequest(name, a, statuses, stored, r) ==
    Finish(name, a, NoVocab, [statuses |-> statuses, stored |-> stored],
           Sending(r.attempts, Trace(r.out, 0, <<>>, <<>>, <<>>)), 0)

\* fhir.create_resource(resource)
CreateResourceCall ==
    /\ phase = "idle"
    /\ \E resource \in ResourceInputs, statuses \in TransportStatusSeqs :
           FinishRequest("create_resource", [resource |-> resource], statuses,
                         Put(resource, "id", Str("new")), CreateResource(resource, statuses))

\* fhir.read_resource(resource_type, resource_id)
ReadResourceCall ==
    /\ phase = "idle"
    /\ \E stored \in ResourceInputs, statuses \in TransportStatusSeqs :
           FinishRequest("read_resource", [resource_id |-> "1"], statuses, stored,
                         ReadResource(stored, statuses))

\* fhir.update_resource(resource)
UpdateResourceCall ==
    /\ phase = "idle"
    /\ \E resource \in ResourceInputs, statuses \in TransportStatusSeqs :
           FinishRequest("update_resource", [resource |-> resource], statuses, resource,
                         UpdateResource(resource, statuses))

\* fhir.delete_resource(resource_type, resource_id)
DeleteResourceCall ==
    /\ phase = "idle"
    /\ \E statuses \in TransportStatusSeqs :
           FinishRequest("delete_resource", [resource_id |-> "1"], statuses, Null,
                         DeleteResource(statuses))

\* fhir.search(resource_type, search_params)
SearchCall ==
    /\ phase = "idle"
    /\ \E bundle \in {Bundle(<<>>), Dict(<<KV("resourceType", Str("Bundle"))>>)},
          statuses \in TransportStatusSeqs :
           FinishRequest("search", [resource_type |-> "Condition"], statuses, bundle,
                         Search(bundle, statuses))

\* terminology.get_display_name(system, code) called on its own
GetDisplayNameCall ==
    /\ phase = "idle"
    /\ \E code \in CodeInputs, system \in SystemInputs :
       \E lt \in [OnePair(system, code) -> LookupAnswers] :
           Finish("get_display_name", [code |-> code, system |-> system],
                  [NoVocab EXCEPT !.lookup = lt], NoData,
                  Trace(GetDisplayName(system, code, lt), 0, <<>>,
                        <<[system |-> system, code |-> code]>>, <<>>), 0)

\* client.get_value_set_options(value_set_url)
GetValueSetOptionsCall ==
    /\ phase = "idle"
    /\ \E url \in ValueSetUrls :
       \E et \in [{<<url, Null>>} -> ExpandAnswers] :
           Finish("get_value_set_options", [value_set_url |-> url, filter |-> Null],
                  [NoVocab EXCEPT !.expand = et], NoData,
                  Trace(GetValueSetOptions(url, et), 0, <<>>, <<>>, <<>>), 0)

\* terminology.search_value_set(value_set_url, search_text)
SearchValueSetCall ==
    /\ phase = "idle"
    /\ \E url \in ValueSetUrls, search_text \in {Str("ma"), Str("")} :
       \E et \in [{<<url, search_text>>} -> ExpandAnswers] :
           Finish("search_value_set", [value_set_url |-> url, filter |-> search_text],
                  [NoVocab EXCEPT !.expand = et], NoData,
                  Trace(SearchValueSet(url, search_text, et), 0, <<>>, <<>>, <<>>), 0)

\* terminology.check_subsumption(code_a, code_b, system) called on its own
CheckSubsumptionCall ==
    /\ phase = "idle"
    /\ \E code_a \in ParentCodes, code_b \in {Str("38341003"), Str("FAKE123")},
          system \in {Str("snomed"), Str(SNOMED)} :
       \E st \in [{<<code_a, code_b>>} -> SubsumesAnswers] :
           Finish("check_subsumption",
                  [code_a |-> code_a, code_b |-> code_b, system |-> system],
                  [NoVocab EXCEPT !.subsumes = st], NoData,
                  Trace(CheckSubsumption(code_a, code_b, system, st), 0, <<>>, <<>>,
                        <<SubsumptionCall(code_a, code_b, system)>>), 0)

\* client.search_observations_by_category(patient_id, category_code, system,
\* include_children)
SearchObservationsByCategory ==
    /\ phase = "idle"
    /\ \E patient_id \in PatientIds, system \in {Str("loinc"), Str(SNOMED)},
          include_children \in BOOLEAN, statuses \in ReadStatusSeqs :
       \E held \in IF Succeeds(statuses) THEN HeldObservations ELSE {<<>>} :
       \E st \in [{PanelCode} \X {Systolic, Diastolic} -> HierarchyAnswers],
          answer \in {Unreachable, WithDisplay} :
           LET lt == [p \in {Str(LOINC)} \X ObservedCodes |-> answer]
           IN  Finish("search_observations_by_category",
                      [patient_id |-> patient_id, category_code |-> PanelCode,
                       system |-> system, include_children |-> include_children],
                      [NoVocab EXCEPT !.subsumes = st, !.lookup = lt],
                      [statuses |-> statuses, stored |-> List(held)],
                      SearchObservationsByCategoryCall(patient_id, PanelCode, system,
                                                       include_children, enrich_display,
                                                       lt, held, statuses), 0)

\* client.validate_resource_codes(resource)
ValidateResourceCodesCall ==
    /\ phase = "idle"
    /\ \E resource \in Records :
       \E vt \in [ValidatePairs(resource) -> {Unreachable, ValidTrue, ValidFalse}] :
           Finish("validate_resource_codes", [resource |-> resource],
                  [NoVocab EXCEPT !.validate = vt], NoData,
                  ValidateResourceCodes(resource, vt), 0)

Next ==
    \/ IsValidCodeCall
    \/ CreateObservation
    \/ CreateCondition
    \/ ReadObservation
    \/ ReadCondition
    \/ EnrichAgain
    \/ FindRelatedConditions
    \/ TranslateConditionCodes
    \/ GetCodeSystemUrlCall
    \/ ResolveAgain
    \/ CreateResourceCall
    \/ ReadResourceCall
    \/ UpdateResourceCall
    \/ DeleteResourceCall
    \/ SearchCall
    \/ GetDisplayNameCall
    \/ GetValueSetOptionsCall
    \/ SearchValueSetCall
    \/ CheckSubsumptionCall
    \/ ValidateResourceCodesCall
    \/ SearchObservationsByCategory

Spec == Init /\ [][Next]_vars

\* the same calls with the requests of the vocabulary service served
SpecServed == InitServed /\ [][Next]_vars

----------------------------------------------------------------------------
(* Properties *)

Done == phase = "done"
IsCreate == op \in {"create_observation", "create_condition"}
IsRead == op \in {"read_observation", "read_condition"}

\* validation is in effect for the create call: the override when given,
\* the instance default otherwise
ValidationInEffect ==
    IF args.validate = Null THEN validate_codes ELSE args.validate = Bool(TRUE)

\* what the vocabulary server answers about the submitted (system, code)
ValidateAnswer == Answer(vocab.validate, GetCodeSystemUrl(args.system).val, args.code)

\* the answer carries a parameter named 'result' with an explicit boolean
ExplicitResult(a) ==
    /\ a # Unreachable
    /\ \E i \in 1..Len(Get(a, "parameter", List(<<>>)).items) :
          /\ Get(Get(a, "parameter", List(<<>>)).items[i], "name", Null) = Str("result")
          /\ Get(Get(a, "parameter", List(<<>>)).items[i], "valueBoolean", Null).t = "bool"

\* the vocabulary client answered 'valid' for the submitted code
ClientSaidValid ==
    \E k \in 1..Len(validated) :
        /\ validated[k].code = args.code
        /\ validated[k].system = args.system
        /\ validated[k].result = Bool(TRUE)

\* C1: a create call with validation in effect for which the vocabulary
\* client did not answer 'valid' ends with ValidationError and has sent no
\* POST to the data server.
C1_InvalidNeverWritten ==
    (Done /\ IsCreate /\ ValidationInEffect /\ ~ClientSaidValid)
        => (outcome.exc = "ValidationError" /\ posts = 0)

\* C1 happens: validation in effect, the vocabulary server unreachable, the
\* data server ready to accept the write, and the call was refused
C1_Witness ==
    /\ Done /\ op = "create_condition" /\ ValidationInEffect
    /\ ValidateAnswer = Unreachable
    /\ data.statuses = AllOf(201)
    /\ outcome.exc = "ValidationError" /\ posts = 0

\* C2: is_valid_code never raises, and it returns False when the request
\* fails or the response has no 'result' parameter with an explicit boolean.
C2_IsValidCodeFailsClosed ==
    (Done /\ op = "is_valid_code")
        => /\ outcome.exc = "none"
           /\ ~ExplicitResult(ValidateAnswer) => outcome.val = Bool(FALSE)

\* C2 happens: the validation request failed and False came back
C2_Witness ==
    /\ Done /\ op = "is_valid_code"
    /\ ValidateAnswer = Unreachable
    /\ outcome = Ret(Bool(FALSE))

\* C3 as claimed: when the vocabulary server is reachable and answers with
\* 'result' = true, is_valid_code returns True.
C3_ValidCodeAccepted ==
    (Done /\ op = "is_valid_code" /\ ValidateAnswer = ValidTrue)
        => outcome = Ret(Bool(TRUE))

\* the (system, code) pairs of the coded elements of the record a create
\* call builds
RecordCodings ==
    CodingsIn(IF op = "create_observation"
              THEN ObservationResource(args.patient_id, args.code,
                       GetCodeSystemUrl(args.system).val, Null, Num(70), Str("kg"), Str("final"))
              ELSE ConditionResource(args.patient_id, args.code,
                       GetCodeSystemUrl(args.system).val, Null, args.clinical_status))

\* is_valid_code was called for the coding
WasValidated(coding) ==
    \E k \in 1..Len(validated) :
        /\ validated[k].code = Get(coding, "code", Null)
        /\ GetCodeSystemUrl(validated[k].system).val = Get(coding, "system", Null)

EnrichInEffect ==
    IF args.enrich = Null THEN enrich_display ELSE args.enrich = Bool(TRUE)

\* a read that got its record from the data server and enriched it once
EnrichedRead == Done /\ IsRead /\ data.stored # Null /\ EnrichInEffect /\ runs <= 1

\* the codings of the record before and after enrichment, in pre-order
Before == CodingsIn(data.stored)
Afterwards == CodingsIn(outcome.val)

\* what the vocabulary server answers to the display lookup of a coding
LookupAnswer(c) ==
    Answer(vocab.lookup, GetCodeSystemUrl(Get(c, "system", Null)).val, Get(c, "code", Null))

\* the field is the same in both codings: present in both with one value, or
\* absent in both
SameField(a, b, k) == Has(a, k) = Has(b, k) /\ Get(a, k, Null) = Get(b, k, Null)

\* the get_display_name calls a pre-order walk of the record makes
ExpectedLookups(record) ==
    With(SelectSeq(CodingsIn(record), LacksDisplay),
         LAMBDA gaps : [i \in 1..Len(gaps) |-> LookupCall(gaps[i])])

\* C5: _enrich_codings applied a second time, the vocabulary server
\* answering as before, returns the record the first application returned.
C5_EnrichIdempotent ==
    [][(runs = 1 /\ runs' = 2) => (outcome' = outcome /\ vocab' = vocab)]_vars

\* C5 happens: a record with a coding that lacks its display was enriched
\* twice, and the first run had changed it
C5_Witness ==
    /\ Done /\ IsRead /\ runs = 2 /\ outcome.exc = "none"
    /\ Len(lookups) >= 2
    /\ outcome.val # data.stored

\* the display lookup of the coding is one that fails
LookupFails(c) == LacksDisplay(c) /\ LookupAnswer(c) \in {Unreachable, NoDisplay}

\* every coding whose lookup failed is at its position with its system, code
\* and display as they were
FailedLeftAlone(before, after) ==
    /\ Len(after) = Len(before)
    /\ \A i \in 1..Len(before) :
          LookupFails(before[i])
              => /\ SameField(before[i], after[i], "system")
                 /\ SameField(before[i], after[i], "code")
                 /\ SameField(before[i], after[i], "display")

\* a lookup was attempted for every coding that lacks a display
EveryGapTried(before, log) ==
    /\ Len(log) = Cardinality({i \in 1..Len(before) : LacksDisplay(before[i])})
    /\ \A i \in 1..Len(before) :
          LacksDisplay(before[i]) => LookupCall(before[i]) \in Range(log)

\* C6: a read with enrichment returns the record without raising, whatever
\* display lookups fail; a coding whose lookup failed is still at its position
\* with its system, code and display unchanged, and a lookup was attempted
\* for every coding that lacks a display.
C6_EnrichNeverFailsRead ==
    EnrichedRead
        => /\ outcome.exc = "none"
           /\ FailedLeftAlone(Before, Afterwards)
           /\ EveryGapTried(Before, lookups)

\* the first coding's lookup fails and a later coding has a lookup that
\* is answered
FailsThenAnswered(before) ==
    /\ Len(before) >= 2
    /\ LookupFails(before[1]) /\ LookupAnswer(before[1]) = Unreachable
    /\ \E i \in 2..Len(before) :
          LacksDisplay(before[i]) /\ LookupAnswer(before[i]) = WithDisplay

\* C6 happens: the lookup of the first coding fails, a later coding has a
\* lookup of its own, and the read returned
C6_Witness ==
    /\ EnrichedRead /\ runs = 1 /\ outcome.exc = "none"
    /\ Len(lookups) >= 2
    /\ FailsThenAnswered(Before)

\* the coded elements of a value, at any depth, in pre-order
RECURSIVE ElementsIn(_)
ElementsIn(x) ==
    IF IsDict(x)
    THEN (IF Has(x, "coding") /\ IsList(Get(x, "coding", Null)) THEN <<x>> ELSE <<>>)
         \o Concat([i \in 1..Len(x.kv) |-> ElementsIn(x.kv[i].v)])
    ELSE IF IsList(x) THEN Concat([i \in 1..Len(x.items) |-> ElementsIn(x.items[i])])
    ELSE <<>>

\* the display the vocabulary server returns in the answer
DisplayIn(answer) == Get(ParamNamed(answer, "display"), "valueString", Null)

\* every coding that lacked a display has the display the server returns
GapsFilled(before, after) ==
    \A i \in 1..Len(before) :
        LacksDisplay(before[i])
            => Get(after[i], "display", Null) = DisplayIn(LookupAnswer(before[i]))

\* the first coding of a coded element
FirstCoding(element) == Get(element, "coding", Null).items[1]

\* every coded element whose text was absent has its first coding's display,
\* the empty string when that coding has none
TextsFilled(before, after) ==
    \A j \in 1..Len(before) :
        (~Has(before[j], "text") /\ Get(before[j], "coding", Null).items # <<>>)
            => Get(after[j], "text", Null) = Get(FirstCoding(after[j]), "display", Str(""))

\* C7 as claimed: when every display lookup succeeds, every coding that
\* lacked a display has the display the vocabulary server returns, and every
\* coded element whose text was absent has the display of its first coding
\* as text.
C7_EveryGapFilled ==
    (EnrichedRead /\ runs = 1 /\ outcome.exc = "none"
     /\ \A p \in DOMAIN vocab.lookup : vocab.lookup[p] = WithDisplay)
        => /\ GapsFilled(Before, Afterwards)
           /\ TextsFilled(ElementsIn(data.stored), ElementsIn(outcome.val))

\* b is a with gaps filled: the same keys in the same order, every sequence
\* with the same length and, index by index, the same element; only the
\* values of 'display' and 'text' may differ and only they may be new
RECURSIVE SamePositions(_, _)
SamePositions(a, b) ==
    IF IsDict(a)
    THEN /\ IsDict(b)
         /\ Len(b.kv) >= Len(a.kv)
         /\ \A i \in 1..Len(a.kv) :
               /\ b.kv[i].k = a.kv[i].k
               /\ a.kv[i].k \in {"display", "text"} \/ SamePositions(a.kv[i].v, b.kv[i].v)
         /\ \A i \in (Len(a.kv) + 1)..Len(b.kv) : b.kv[i].k \in {"display", "text"}
    ELSE IF IsList(a)
    THEN /\ IsList(b)
         /\ Len(b.items) = Len(a.items)
         /\ \A i \in 1..Len(a.items) : SamePositions(a.items[i], b.items[i])
    ELSE a = b

\* C8: enrichment keeps every coding array and every other sequence of the
\* record at its length with each element at its index, and the display
\* lookups are made in depth-first pre-order, each array in its own order.
C8_PositionsPreserved ==
    (EnrichedRead /\ runs = 1)
        => /\ outcome.exc = "none"
           /\ SamePositions(data.stored, outcome.val)
           /\ lookups = ExpectedLookups(data.stored)

\* C8 happens: two different codings in one array and codings at depth were
\* looked up
C8_Witness ==
    /\ EnrichedRead /\ runs = 1 /\ outcome.exc = "none"
    /\ Len(lookups) >= 3
    /\ lookups[1] # lookups[2]
    /\ Has(data.stored, "component")

\* a hierarchy search whose candidate query the data server answered
SearchedHierarchy == Done /\ op = "find_related_conditions" /\ data.stored # Null

\* the codings of a candidate that are under the resolved system
CodingsUnder(candidate, system) ==
    SelectSeq(Get(Get(candidate, "code", Dict(<<>>)), "coding", List(<<>>)).items,
              LAMBDA c : Get(c, "system", Null) = GetCodeSystemUrl(system).val)

\* the answer of the vocabulary server for (parent, the coding's code)
SubsumesAnswer(c) == Answer(vocab.subsumes, args.parent_code, Get(c, "code", Null))

\* the vocabulary server says the coding is the parent or below it
ServerSubsumes(c) ==
    Has(c, "code") /\ SubsumesAnswer(c) \in {OutcomeOf("subsumes"), OutcomeOf("equivalent")}

\* the candidate is among the records the search returned
InResult(candidate) ==
    outcome.exc = "none"
    /\ \E k \in 1..Len(outcome.val.items) :
          Get(outcome.val.items[k], "id", Null) = Get(candidate, "id", Null)

\* the subsumption calls of one candidate, then of all candidates in order
CallsFor(candidate) ==
    With(SelectSeq(CodingsUnder(candidate, args.system), LAMBDA c : Has(c, "code")),
         LAMBDA cs : [j \in 1..Len(cs) |->
                         SubsumptionCall(args.parent_code, Get(cs[j], "code", Null), args.system)])
ExpectedCalls(candidates) == Concat([i \in 1..Len(candidates) |-> CallsFor(candidates[i])])

\* a candidate is returned exactly when the server subsumes one of its codings
KeptIffSubsumed(candidates) ==
    \A i \in 1..Len(candidates) :
        InResult(candidates[i])
            <=> \E j \in 1..Len(CodingsUnder(candidates[i], args.system)) :
                   ServerSubsumes(CodingsUnder(candidates[i], args.system)[j])

\* C9 as claimed: the subsumption call is made as (parent_code, candidate
\* code) for each coding of each candidate under the resolved system, and a
\* candidate is in the result if and only if the vocabulary server answers
\* 'subsumes' or 'equivalent' to one of its calls.
C9_RelatedIffSubsumed ==
    SearchedHierarchy
        => /\ subsumptions = ExpectedCalls(Resources(data.stored))
           /\ KeptIffSubsumed(Resources(data.stored))

\* the outcome of the candidate's own call for the coding, as the vocabulary
\* client returns it
OwnOutcome(c) ==
    SubsumptionStepUnguarded(args.parent_code, c, args.system, vocab.subsumes)

\* a candidate is returned exactly when one of its own calls came back and
\* said 'subsumes' or 'equivalent'; one whose calls all failed is left out
KeptByOwnOutcome(candidates) ==
    \A i \in 1..Len(candidates) :
        InResult(candidates[i])
            <=> \E j \in 1..Len(CodingsUnder(candidates[i], args.system)) :
                   With(OwnOutcome(CodingsUnder(candidates[i], args.system)[j]),
                        LAMBDA r : r.exc = "none" /\ r.keep)

\* C10: a failing subsumption call does not abort the hierarchy search: the
\* search does not raise, the call of every coding of every candidate is
\* still made, a candidate whose calls failed is left out and every other
\* candidate is kept or discarded by the outcome of its own calls.
C10_FailureDoesNotAbort ==
    SearchedHierarchy
        => /\ outcome.exc = "none"
           /\ subsumptions = ExpectedCalls(Resources(data.stored))
           /\ KeptByOwnOutcome(Resources(data.stored))

\* the call for the candidate's first coding fails
FirstCallFails(candidate) ==
    /\ Len(CodingsUnder(candidate, args.system)) >= 1
    /\ OwnOutcome(CodingsUnder(candidate, args.system)[1]).exc # "none"

\* C10 happens: the call of the first of two candidates failed, the second
\* candidate was still asked about, and the search returned
C10_Witness ==
    /\ SearchedHierarchy /\ outcome.exc = "none"
    /\ Len(Resources(data.stored)) = 2
    /\ FirstCallFails(Resources(data.stored)[1])
    /\ Len(CallsFor(Resources(data.stored)[1])) >= 1
    /\ Len(CallsFor(Resources(data.stored)[2])) >= 1
    /\ Len(subsumptions) >= 2
    /\ ~InResult(Resources(data.stored)[1])

\* a finished translate_condition_codes call
TranslateDone == Done /\ op = "translate_condition_codes"

\* the answer of the vocabulary server for the translation of a coding
TranslateAnswer(c) ==
    Answer(vocab.translate, GetCodeSystemUrl(Get(c, "system", Str(""))).val,
           Get(c, "code", Str("")))

\* q starts with p
StartsWith(q, p) == Len(q) >= Len(p) /\ SubSeq(q, 1, Len(p)) = p

ExpectedTranslations(condition, target_system) ==
    [i \in 1..Len(CodeCodings(condition)) |->
        TranslateCall(CodeCodings(condition)[i], target_system)]

\* the translation of the coding fails or yields no match
NoTranslation(c) ==
    \/ TranslateAnswer(c) \in {Unreachable, NoMatch}
    \/ Raised(TranslateCode(Get(c, "code", Str("")), Get(c, "system", Str("")),
                            args.target_system, vocab.translate))

\* C12: translate_condition_codes never raises because of a translation
\* outcome: when every translation fails or yields no match the codings are
\* left as they were, and a translation is attempted for every coding of the
\* condition whatever became of the ones before it.
C12_TranslationFailureSkipped ==
    TranslateDone
        => /\ outcome.exc = "none"
           /\ StartsWith(translations,
                         ExpectedTranslations(args.condition, args.target_system))
           /\ (\A i \in 1..Len(CodeCodings(args.condition)) :
                   NoTranslation(CodeCodings(args.condition)[i]))
                  => outcome.val = args.condition

\* C12 happens: the translation of the first of two codings failed, the
\* second was still asked about, and the condition came back as it was
C12_Witness ==
    /\ TranslateDone /\ outcome.exc = "none"
    /\ Len(CodeCodings(args.condition)) = 2
    /\ TranslateAnswer(CodeCodings(args.condition)[1]) = Unreachable
    /\ Len(translations) = 2
    /\ outcome.val = args.condition

\* get_code_system_url has returned, once or applied again to its own result
Resolved == op = "get_code_system_url" /\ phase \in {"done", "again"}

\* the name is an alias of the table, whatever its case
KnownAlias(name) == Lower(name.s) \in DOMAIN CODE_SYSTEMS

\* C13: get_code_system_url never fails: a known alias gives the canonical
\* URI of the alias table, any other string comes back as it is, and
\* resolving the result again returns it unchanged.
C13_ResolveSystem ==
    Resolved
        => /\ outcome.exc = "none"
           /\ outcome.val = IF KnownAlias(args.code_system)
                            THEN Str(CODE_SYSTEMS[Lower(args.code_system.s)])
                            ELSE args.code_system

\* C13 happens: 'loinc' was resolved, the result resolved again, and the
\* canonical LOINC URI came back
C13_Witness ==
    /\ Resolved /\ phase = "again"
    /\ args.code_system = Str("loinc")
    /\ outcome = Ret(Str("http://loinc.org"))

\* a finished call that sent a request to the data server
IsTransport ==
    op \in {"create_resource", "read_resource", "update_resource", "delete_resource", "search"}
Requested == phase = "done" /\ data.statuses # <<>> /\ sent > 0

\* the data server answers 500 to every attempt the client makes
AlwaysFails == \A i \in 1..sent : data.statuses[i] = 500

C15_RetryThenSuccess ==
    (Requested /\ IsTransport
     /\ SubSeq(data.statuses, 1, 2) = <<503, 503>> /\ data.statuses[3] \in {200, 201})
        => /\ outcome.exc = "none"
           /\ sent = 3
           /\ outcome.val = IF op = "delete_resource" THEN Bool(data.statuses[3] = 200)
                            ELSE data.stored

\* C15 happens: read_resource got 503, 503, 200 and returned the resource
C15_Witness ==
    /\ Requested /\ op = "read_resource"
    /\ data.statuses = <<503, 503, 200, 200>>
    /\ sent = 3
    /\ outcome = Ret(data.stored) /\ data.stored # Null

DisplayAnswer == Answer(vocab.lookup, GetCodeSystemUrl(args.system).val, args.code)

\* C17 as claimed: get_display_name never raises; it returns None when the
\* lookup fails or the response has no 'display' parameter, and the display
\* string of the response otherwise.
C17_DisplayOrAbsent ==
    (Done /\ op = "get_display_name")
        => /\ outcome.exc = "none"
           /\ outcome.val = IF DisplayAnswer = Unreachable
                               \/ ParamNamed(DisplayAnswer, "display") = Null
                            THEN Null
                            ELSE DisplayIn(DisplayAnswer)

\* the answer of the vocabulary server to the expansion of the call
ExpandAnswer == Answer(vocab.expand, args.value_set_url, args.filter)

\* C18 as claimed: get_value_set_options and search_value_set never raise,
\* and an empty expansion or a failed expansion request gives an empty
\* sequence.
C18_ListingNeverRaises ==
    (Done /\ op \in {"get_value_set_options", "search_value_set"})
        => /\ outcome.exc = "none"
           /\ ExpandAnswer \in {Unreachable, EmptyExpansion, NoExpansion}
                  => outcome.val = List(<<>>)

\* the answer of the vocabulary server to the subsumption test of the call
SubsumesOutcome == Answer(vocab.subsumes, args.code_a, args.code_b)

\* C19 as claimed: check_subsumption raises only on a transport failure: a
\* well-formed answer of the vocabulary server, 'not-subsumed' included, is
\* returned.
C19_AnswerReturned ==
    (Done /\ op = "check_subsumption" /\ SubsumesOutcome # Unreachable)
        => outcome = Ret(SubsumesOutcome)

\* the display lookup of the create call fails: the vocabulary server is
\* unreachable or its answer has no display
CreateLookupFails == DisplayAnswer = Unreachable \/ ParamNamed(DisplayAnswer, "display") = Null

\* the record the create call builds when it has no display for the code
RecordWithoutDisplay ==
    IF op = "create_observation"
    THEN ObservationResource(args.patient_id, args.code, GetCodeSystemUrl(args.system).val,
                             Null, Num(70), Str("kg"), Str("final"))
    ELSE ConditionResource(args.patient_id, args.code, GetCodeSystemUrl(args.system).val,
                           Null, args.clinical_status)

Accepted == data.statuses[sent] >= 200 /\ data.statuses[sent] < 300

\* C21: delete_resource returns True whenever the server answered the
\* deletion with a non-error status and raises FHIRClientError whenever it
\* did not; it never returns False for a deletion the server accepted.
C21_DeleteTrueOrRaises ==
    (Requested /\ op = "delete_resource")
        => IF Accepted THEN outcome = Ret(Bool(TRUE))
           ELSE outcome.exc = "FHIRClientError"

\* the resource handed to the call lacks a field the call requires
LacksRequired ==
    \/ op = "create_resource" /\ ~Has(args.resource, "resourceType")
    \/ op = "update_resource"
           /\ (~Has(args.resource, "resourceType") \/ ~Has(args.resource, "id"))

\* C22: create_resource on a resource without resourceType, and
\* update_resource on a resource without resourceType or without id, raise
\* FHIRClientError and send no request to the data server.
C22_PreconditionsBeforeRequest ==
    (Done /\ LacksRequired) => (outcome.exc = "FHIRClientError" /\ sent = 0)

\* C22 happens: update_resource was given a resource with a resourceType and
\* no id while the server would have answered 200; nothing was sent
C22_Witness ==
    /\ Done /\ op = "update_resource"
    /\ Has(args.resource, "resourceType") /\ ~Has(args.resource, "id")
    /\ data.statuses = AllOf(200)
    /\ sent = 0
    /\ outcome.exc = "FHIRClientError"

\* a coding validate_resource_codes asks about: system and code both given
FullyCoded(c) == Truthy(Get(c, "system", Null)) /\ Truthy(Get(c, "code", Null))

\* the codings of the resource that were to be checked, in walk order
ToCheck == SelectSeq(CodingsIn(args.resource), FullyCoded)

\* the is_valid_code calls of the call that came back false
Rejected == SelectSeq(validated, LAMBDA v : ~Truthy(v.result))

\* row k of the calls is about coding k of codings
SamePairs(rows, codings) ==
    /\ Len(rows) = Len(codings)
    /\ \A k \in 1..Len(rows) :
           /\ rows[k].system = Get(codings[k], "system", Null)
           /\ rows[k].code = Get(codings[k], "code", Null)

\* error k of the errors is about the code of row k of the calls
SameCodes(errors, rows) ==
    /\ Len(errors) = Len(rows)
    /\ \A k \in 1..Len(errors) :
           errors[k].system = rows[k].system /\ errors[k].code = rows[k].code

\* no two errors name the same place of the resource
DistinctPlaces(errors) ==
    \A j, k \in 1..Len(errors) :
        (errors[j].path = errors[k].path /\ errors[j].index = errors[k].index) => j = k

\* C23: validate_resource_codes asks is_valid_code once for every coding of
\* the resource tree that has a system and a code, whatever the earlier
\* answers were, returns one error for each of them that came back false, in
\* walk order and each at its own place, hence the empty list exactly when
\* none came back false, and sends nothing to the data server.
C23_OneErrorPerInvalidCoding ==
    (Done /\ op = "validate_resource_codes")
        => /\ outcome.exc = "none"
           /\ SamePairs(validated, ToCheck)
           /\ SameCodes(outcome.val.items, Rejected)
           /\ DistinctPlaces(outcome.val.items)
           /\ (outcome.val.items = <<>>) <=> (Rejected = <<>>)
           /\ posts = 0 /\ sent = 0

\* C23 happens: a resource with codings below a list of components; two or
\* more codings were rejected and each was reported
C23_Witness ==
    /\ Done /\ op = "validate_resource_codes"
    /\ Has(args.resource, "component")
    /\ Len(Rejected) >= 2
    /\ Len(outcome.val.items) = Len(Rejected)

\* C24: the per-call override wins over the instance default. A create call
\* with validate=False asks for no validation and sends its write, and one
\* with validate=True asks for the validation of its code, whatever
\* validate_codes is; a read with enrich=False makes no lookup and returns
\* the record as fetched, and one with enrich=True makes the lookups of
\* enrichment, whatever enrich_display is.
C24_OverrideWins ==
    /\ (Done /\ IsCreate /\ args.validate = Bool(FALSE))
           => (validated = <<>> /\ posts >= 1)
    /\ (Done /\ IsCreate /\ args.validate = Bool(TRUE))
           => (Len(validated) = 1 /\ validated[1].code = args.code)
    /\ (Done /\ IsRead /\ args.enrich = Bool(FALSE))
           => /\ lookups = <<>>
              /\ data.stored # Null => outcome = Ret(data.stored)
    /\ (Done /\ IsRead /\ runs <= 1 /\ args.enrich = Bool(TRUE) /\ data.stored # Null)
           => lookups = ExpectedLookups(data.stored)

\* C24 happens: the instance validates by default, create_observation was
\* called with validate=False for a code the vocabulary server rejects, no
\* validation was asked for and the record was written
C24_Witness ==
    /\ Done /\ op = "create_observation"
    /\ validate_codes /\ args.validate = Bool(FALSE)
    /\ ValidateAnswer = ValidFalse
    /\ validated = <<>>
    /\ posts = 1 /\ outcome.exc = "none"

\* a category search the data server answered
SearchedCategory ==
    Done /\ op = "search_observations_by_category" /\ outcome.exc = "none"

\* the vocabulary server places the observation's code below the category
\* code, under the system that was searched
ChildOfCategory(observation) ==
    \E code \in {Systolic, Diastolic} :
        /\ CodedAs(observation, GetCodeSystemUrl(args.system).val, code)
        /\ Answer(vocab.subsumes, args.category_code, code) = OutcomeOf("subsumes")

\* what the same search returns with include_children=False
WithoutChildren ==
    SearchObservationsByCategoryCall(args.patient_id, args.category_code, args.system, FALSE,
                                     enrich_display, vocab.lookup, data.stored.items,
                                     data.statuses).out

\* C25: with include_children=True the category search covers the codes
\* below the category code: every observation of the patient whose code is a
\* child of category_code is in the result, and every record the search
\* returns with include_children=False is in it as well.
C25_ChildrenIncluded ==
    (SearchedCategory /\ args.include_children)
        => /\ \A o \in Range(data.stored.items) : ChildOfCategory(o) => InResult(o)
           /\ \A o \in Range(WithoutChildren.val.items) : InResult(o)

CandidateOf(k) == Get(outcome.val.items[k], "id", Num(0)).n

RECURSIVE Stripped(_, _)
Stripped(x, coding) ==
    IF IsDict(x)
    THEN With(Has(x, "coding") /\ IsList(Get(x, "coding", Null)), LAMBDA element :
         With(SelectSeq(x.kv, LAMBDA e : ~(coding /\ e.k = "display")
                                         /\ ~(element /\ e.k = "text")), LAMBDA kept :
            Dict([i \in 1..Len(kept) |->
                     KV(kept[i].k,
                        IF element /\ kept[i].k = "coding"
                        THEN List([j \in 1..Len(kept[i].v.items) |->
                                      Stripped(kept[i].v.items[j], TRUE)])
                        ELSE Stripped(kept[i].v, FALSE))])))
    ELSE IF IsList(x) THEN List([i \in 1..Len(x.items) |-> Stripped(x.items[i], FALSE)])
    ELSE x

\* coding i is the same coding after as before: system and code as they were
\* and a display that was given still there
CodingsKept(before, after) ==
    /\ Len(after) = Len(before)
    /\ \A i \in 1..Len(before) :
           /\ SameField(before[i], after[i], "system")
           /\ SameField(before[i], after[i], "code")
           /\ Truthy(Get(before[i], "display", Null))
                  => SameField(before[i], after[i], "display")

\* a text that was given to a coded element is still there
TextsKept(before, after) ==
    /\ Len(after) = Len(before)
    /\ \A j \in 1..Len(before) :
           Truthy(Get(before[j], "text", Null)) => SameField(before[j], after[j], "text")

\* C28: enrichment only fills gaps: it changes no system and no code, adds and
\* removes no coding, leaves a display and a text that were present and
\* non-empty as they were, and changes nothing of the record but 'display' of
\* codings and 'text' of coded elements.
C28_EnrichOnlyFillsGaps ==
    (EnrichedRead /\ outcome.exc = "none")
        => /\ CodingsKept(Before, Afterwards)
           /\ TextsKept(ElementsIn(data.stored), ElementsIn(outcome.val))
           /\ Stripped(outcome.val, FALSE) = Stripped(data.stored, FALSE)

\* C28 happens: enrichment filled the display of one coding of a record that
\* also holds a coding under the same code with a display of its own, and a
\* text of its own
C28_Witness ==
    /\ EnrichedRead /\ runs = 1 /\ outcome.exc = "none"
    /\ Get(Get(data.stored, "code", Dict(<<>>)), "text", Null) = Str("Given text")
    /\ Len(Before) = 2
    /\ Get(Before[1], "display", Null) = Str("Given display")
    /\ LacksDisplay(Before[2])
    /\ Get(Afterwards[2], "display", Null) = Str("Display of code")
    /\ outcome.val # data.stored

\* the coded element had no text and got one that is the display its first
\* coding now has
TextFromDisplay(before, after) ==
    (~Has(before, "text") /\ Has(after, "text"))
        => /\ Get(after, "coding", Null).items # <<>>
           /\ Has(FirstCoding(after), "display")
           /\ Get(after, "text", Null) = Get(FirstCoding(after), "display", Null)

\* the coded element had no text and its first coding has no display, given
\* or looked up: it is as it was
NoDisplayNoText(before, after) ==
    (~Has(before, "text") /\ Get(before, "coding", Null).items # <<>>
     /\ ~Has(FirstCoding(after), "display"))
        => after = before

\* C29: after enrichment a coded element whose text was absent and is now
\* present has the display of its first coding as text, and a coded element
\* whose first coding has no display, none given and none looked up, is left
\* as it was: no text is added to it, not even an empty one.
C29_TextOnlyFromDisplay ==
    (EnrichedRead /\ outcome.exc = "none")
        => \A j \in 1..Len(ElementsIn(data.stored)) :
               /\ TextFromDisplay(ElementsIn(data.stored)[j], ElementsIn(outcome.val)[j])
               /\ NoDisplayNoText(ElementsIn(data.stored)[j], ElementsIn(outcome.val)[j])

\* C30: one create_resource call sends its record to the data server at most
\* once, whatever transient statuses or timeouts the server answers with: no
\* second POST of the record is made.
C30_AtMostOnePost ==
    (Done /\ op = "create_resource") => sent <= 1

====
